---- MODULE Spec2Model ----
(***************************************************************************)
(* SmartCalculator: the lexer (GetNextToken), the shunting-yard converter  *)
(* (InfixToPostfix), the postfix evaluator (EvaluatePostfix) and the       *)
(* session loop (main) of SmartCalculator.cpp as a state machine.          *)
(*                                                                         *)
(* Text is a sequence of one-character strings.  A double is an exact      *)
(* rational n/d inside the window |n|, d <= MaxMagnitude; outside it, and  *)
(* for the results of the transcendental functions, it is an unevaluated   *)
(* term (k = "sym"), so that two values are equal only when they were      *)
(* computed the same way.  Rounding of doubles is not modelled.            *)
(***************************************************************************)
EXTENDS Integers, Sequences, FiniteSets, TLC

\* ---------------------------------------------------------------- bounds
MaxMagnitude == 30000
MaxEvals == 2
MaxPieces == 3
MaxDigits == 2
MaxOperators == 2

\* ---------------------------------------------------------------- doubles
Abs(i) == IF i < 0 THEN -i ELSE i

RECURSIVE GCD(_, _)
GCD(a, b) == IF b = 0 THEN a ELSE GCD(b, a % b)

\* the double n/d, in lowest terms with a positive denominator
Q(n, d) ==
    LET s == IF d < 0 THEN -1 ELSE 1
        g == GCD(Abs(n), Abs(d))
    IN  [k |-> "q", n |-> (s * n) \div g, d |-> (s * d) \div g, f |-> "", a |-> <<>>]

Num(i) == Q(i, 1)

\* a double the model does not compute: f applied to args
Sym(f, args) == [k |-> "sym", n |-> 0, d |-> 1, f |-> f, a |-> args]

IsQ(v) == v.k = "q"
Small(v) == IsQ(v) /\ Abs(v.n) <= MaxMagnitude /\ v.d <= MaxMagnitude
IsZero(v) == IsQ(v) /\ v.n = 0

Add(x, y) == IF Small(x) /\ Small(y) THEN Q(x.n * y.d + y.n * x.d, x.d * y.d)
             ELSE Sym("+", <<x, y>>)
Sub(x, y) == IF Small(x) /\ Small(y) THEN Q(x.n * y.d - y.n * x.d, x.d * y.d)
             ELSE Sym("-", <<x, y>>)
Mul(x, y) == IF Small(x) /\ Small(y) THEN Q(x.n * y.n, x.d * y.d)
             ELSE Sym("*", <<x, y>>)
Div(x, y) == IF Small(x) /\ Small(y) /\ y.n # 0 THEN Q(x.n * y.d, x.d * y.n)
             ELSE Sym("/", <<x, y>>)

\* b multiplied e times into acc; leaves the window as soon as acc does
RECURSIVE PowAcc(_, _, _)
PowAcc(acc, b, e) ==
    IF e = 0 \/ ~Small(acc) THEN acc
    ELSE PowAcc(Q(acc.n * b.n, acc.d * b.d), b, e - 1)

\* pow(first, second) of <cmath>
Pow(b, e) ==
    IF ~(Small(b) /\ Small(e)) \/ e.d # 1 THEN Sym("^", <<b, e>>)
    ELSE IF e.n = 0 THEN Num(1)
    ELSE IF b.n = 0 THEN (IF e.n > 0 THEN Num(0) ELSE Sym("^", <<b, e>>))
    ELSE IF b = Num(1) THEN Num(1)
    ELSE IF b = Num(-1) THEN (IF e.n % 2 = 0 THEN Num(1) ELSE Num(-1))
    ELSE LET base == IF e.n > 0 THEN b ELSE Q(b.d, b.n)
             r == PowAcc(Num(1), base, Abs(e.n))
         IN  IF Small(r) THEN r ELSE Sym("^", <<b, e>>)

\* the integer square root of i, or -1 when i is no perfect square
RECURSIVE RootFrom(_, _)
RootFrom(i, r) == IF r * r = i THEN r ELSE IF r * r > i THEN -1 ELSE RootFrom(i, r + 1)
Root(i) == RootFrom(i, 0)

\* ---------------------------------------------------------------- characters
Digits == {"0", "1", "2", "3", "4", "5", "6", "7", "8", "9"}
Letters == {"a", "b", "c", "d", "e", "f", "g", "h", "i", "j", "k", "l", "m",
            "n", "o", "p", "q", "r", "s", "t", "u", "v", "w", "x", "y", "z", "X"}
Spaces == {" ", "\t"}

isspace(c) == c \in Spaces
isdigit(c) == c \in Digits
isalpha(c) == c \in Letters
isalnum(c) == isalpha(c) \/ isdigit(c)

DigitValue(c) ==
    CASE c = "0" -> 0 [] c = "1" -> 1 [] c = "2" -> 2 [] c = "3" -> 3 [] c = "4" -> 4
      [] c = "5" -> 5 [] c = "6" -> 6 [] c = "7" -> 7 [] c = "8" -> 8 [] c = "9" -> 9

\* expression[index], index counted from 0 as in the source
CharAt(expression, index) == expression[index + 1]

\* substr without its offset: the whole text again
SubstrWhole(expression, index) == expression

\* expression.substr(index)
Substr(expression, index) == SubSeq(expression, index + 1, Len(expression))

\* ---------------------------------------------------------------- tables
sin == <<"s", "i", "n">>
cos == <<"c", "o", "s">>
tan == <<"t", "a", "n">>
log == <<"l", "o", "g">>
sqrt == <<"s", "q", "r", "t">>
exp == <<"e", "x", "p">>

functions == {sin, cos, tan, log, sqrt, exp}

precedences == [c \in {"+", "-", "*", "/", "^"} |->
                  CASE c \in {"+", "-"} -> 1 [] c \in {"*", "/"} -> 2 [] c = "^" -> 3]

\* the characters strchr("+-*/^=()", c) finds
OperatorChars == {"+", "-", "*", "/", "^", "=", "(", ")"}

\* ---------------------------------------------------------------- tokens
Token(type, value, op, func) == [type |-> type, value |-> value, op |-> op, func |-> func]

\* what one call of GetNextToken leaves: the token, the advanced index, or the throw
Lexed(token, index) == [token |-> token, index |-> index, err |-> "", char |-> ""]
LexError(index, c) ==
    [token |-> Token("END", Num(0), "", <<>>), index |-> index,
     err |-> "Unexpected character", char |-> c]

\* while (index < size && isspace(expression[index])) index++
RECURSIVE SkipSpaces(_, _)
SkipSpaces(expression, index) ==
    IF index < Len(expression) /\ isspace(CharAt(expression, index))
    THEN SkipSpaces(expression, index + 1)
    ELSE index

\* pow(10, -decimals)
Pow10Neg(decimals) == Pow(Num(10), Num(-decimals))

\* the digit-and-point loop of a numeric literal
RECURSIVE ScanNumber(_, _, _, _)
ScanNumber(expression, index, num, decimals) ==
    IF index < Len(expression)
       /\ (isdigit(CharAt(expression, index)) \/ CharAt(expression, index) = ".")
    THEN LET c == CharAt(expression, index)
         IN  IF c = "." THEN ScanNumber(expression, index + 1, num, 0)
             ELSE IF decimals = -1
                  THEN ScanNumber(expression, index + 1,
                                  Add(Mul(num, Num(10)), Num(DigitValue(c))), decimals)
                  ELSE ScanNumber(expression, index + 1,
                                  Add(num, Mul(Num(DigitValue(c)), Pow10Neg(decimals))),
                                  decimals + 1)
    ELSE Lexed(Token("NUMBER", num, "", <<>>), index)

\* the isalnum loop of an identifier: the index after the name
RECURSIVE ScanName(_, _)
ScanName(expression, index) ==
    IF index < Len(expression) /\ isalnum(CharAt(expression, index))
    THEN ScanName(expression, index + 1)
    ELSE index

GetNextToken(expression, index) ==
    LET i == SkipSpaces(expression, index)
    IN  IF i >= Len(expression) THEN Lexed(Token("END", Num(0), "", <<>>), i)
        ELSE LET c == CharAt(expression, i)
             IN  IF isdigit(c) \/ c = "." THEN ScanNumber(expression, i, Num(0), -1)
                 ELSE IF isalpha(c)
                 THEN LET j == ScanName(expression, i)
                          name == SubSeq(expression, i + 1, j)
                          e == SkipSpaces(expression, j)
                      IN  IF e < Len(expression) /\ CharAt(expression, e) = "="
                          THEN Lexed(Token("ASSIGNMENT", Num(0), "", name), e + 1)
                          ELSE IF name \in functions
                          THEN Lexed(Token("FUNCTION", Num(0), "", name), e)
                          ELSE Lexed(Token("VARIABLE", Num(0), "", name), e)
                 ELSE IF c \in OperatorChars
                 THEN Lexed(Token(IF c = "(" \/ c = ")" THEN "PARENTHESIS" ELSE "OPERATOR",
                                  Num(0), c, <<>>), i + 1)
                 ELSE LexError(i, c)

\* a table that ranks every operator alike
FlatPrecedence(c) == IF c \in DOMAIN precedences THEN 1 ELSE 0

GetPrecedence(c) == IF c \in DOMAIN precedences THEN precedences[c] ELSE 0

\* ---------------------------------------------------------------- operators
Computed(value) == [value |-> value, err |-> ""]
Thrown(err) == [value |-> Num(0), err |-> err]

GetOperatorResult(op, first, second) ==
    CASE op = "+" -> Computed(Add(first, second))
      [] op = "-" -> Computed(Sub(first, second))
      [] op = "*" -> Computed(Mul(first, second))
      [] op = "/" -> IF IsZero(second) THEN Thrown("Division by zero")
                     ELSE Computed(Div(first, second))
      [] op = "^" -> Computed(Pow(first, second))
      [] OTHER -> Thrown("Unknown operator")

GetFunctionResult(func, arg) ==
    CASE func = sin -> Computed(IF IsZero(arg) THEN Num(0) ELSE Sym("sin", <<arg>>))
      [] func = cos -> Computed(IF IsZero(arg) THEN Num(1) ELSE Sym("cos", <<arg>>))
      [] func = tan -> Computed(IF IsZero(arg) THEN Num(0) ELSE Sym("tan", <<arg>>))
      [] func = log -> Computed(IF arg = Num(1) THEN Num(0) ELSE Sym("log", <<arg>>))
      [] func = sqrt -> Computed(IF Small(arg) /\ arg.n >= 0
                                    /\ Root(arg.n) >= 0 /\ Root(arg.d) >= 0
                                 THEN Q(Root(arg.n), Root(arg.d))
                                 ELSE Sym("sqrt", <<arg>>))
      [] func = exp -> Computed(IF IsZero(arg) THEN Num(1) ELSE Sym("exp", <<arg>>))
      [] OTHER -> Thrown("Unknown function")

\* ---------------------------------------------------------------- state
VARIABLES
    variables,  \* main's std::map<std::string, double>: a function on the assigned names
    input,      \* the line main read last
    pc,         \* main: "prompt" before getline, "running" inside EvaluateExpression,
                \* "exited" after the break, "crashed" when the process died
    calls,      \* the nested EvaluateExpression calls, the innermost last
    outcome,    \* what the last EvaluateExpression call of main gave
    entry,      \* the store as it was when main called EvaluateExpression
    ub,         \* the stacks ("operators", "operands") this call read or popped while empty
    budget,     \* the lines main will still read
    mode        \* the family the session's lines are drawn from

vars == <<variables, input, pc, calls, outcome, entry, ub, budget, mode>>

\* one EvaluateExpression call: InfixToPostfix's locals (expression, index, stack,
\* result, varName), then EvaluatePostfix's (result is its postfix, pos, operands)
Frame(expression) ==
    [expression |-> expression, index |-> 0, stack |-> <<>>, result |-> <<>>,
     phase |-> "convert", varName |-> <<>>, pos |-> 0, operands |-> <<>>]

NoOutcome == [kind |-> "none", value |-> Num(0), err |-> ""]
Result(value) == [kind |-> "ok", value |-> value, err |-> ""]
Error(err) == [kind |-> "error", value |-> Num(0), err |-> err]
Crash == [kind |-> "crash", value |-> Num(0), err |-> ""]

Top(s) == s[Len(s)]
Pop(s) == SubSeq(s, 1, Len(s) - 1)
ReplaceTop(s, x) == Append(Pop(s), x)

\* an assignment to a copy of the map: the store keeps its old content
LostAssign(store, name, value) == store

\* variables[name] = value
Assign(store, name, value) ==
    [n \in DOMAIN store \cup {name} |-> IF n = name THEN value ELSE store[n]]

\* what a read of an empty std::stack<double> can give when the process survives it
GarbageValues == {Num(0), Num(7)}

\* ---------------------------------------------------------------- InfixToPostfix
\* while (!stack.empty() && GetPrecedence(stack.top().op) >= GetPrecedence(token.op))
RECURSIVE PopOperators(_, _, _)
PopOperators(stack, result, op) ==
    IF stack # <<>> /\ GetPrecedence(Top(stack).op) >= GetPrecedence(op)
    THEN PopOperators(Pop(stack), Append(result, Top(stack)), op)
    ELSE [stack |-> stack, result |-> result]

\* while (!stack.empty() && stack.top().op != '(')
RECURSIVE PopToParenthesis(_, _)
PopToParenthesis(stack, result) ==
    IF stack # <<>> /\ Top(stack).op # "("
    THEN PopToParenthesis(Pop(stack), Append(result, Top(stack)))
    ELSE [stack |-> stack, result |-> result]

\* while (!stack.empty()) { result.push_back(stack.top()); stack.pop(); }
RECURSIVE DrainStack(_, _)
DrainStack(stack, result) ==
    IF stack # <<>> THEN DrainStack(Pop(stack), Append(result, Top(stack)))
    ELSE result

\* the effect of one token on the operator stack and the output; popsEmpty when the
\* stack.pop() after a ')' finds the stack empty
Shunt(f, token) ==
    CASE token.type \in {"NUMBER", "VARIABLE", "FUNCTION"} ->
            [stack |-> f.stack, result |-> Append(f.result, token), popsEmpty |-> FALSE]
      [] token.type = "OPERATOR" ->
            LET p == PopOperators(f.stack, f.result, token.op)
            IN  [stack |-> Append(p.stack, token), result |-> p.result, popsEmpty |-> FALSE]
      [] token.type = "PARENTHESIS" /\ token.op = "(" ->
            [stack |-> Append(f.stack, token), result |-> f.result, popsEmpty |-> FALSE]
      [] token.type = "PARENTHESIS" /\ token.op = ")" ->
            LET p == PopToParenthesis(f.stack, f.result)
            IN  IF p.stack = <<>>
                THEN [stack |-> <<>>, result |-> p.result, popsEmpty |-> TRUE]
                ELSE [stack |-> Pop(p.stack), result |-> p.result, popsEmpty |-> FALSE]
      [] OTHER -> [stack |-> f.stack, result |-> f.result, popsEmpty |-> FALSE]

\* the exception leaves every nested call and is caught by main
Throw(err) ==
    /\ calls' = <<>>
    /\ outcome' = Error(err)
    /\ pc' = "prompt"
    /\ UNCHANGED variables

\* undefined behaviour that kills the process
Die ==
    /\ calls' = <<>>
    /\ outcome' = Crash
    /\ pc' = "crashed"
    /\ UNCHANGED variables

\* variables[varName] taken before the call: the name is inserted with 0
StoreAtCallEager(store, varName) == Assign(store, varName, Num(0))

\* the store while the call for an assignment's right-hand side runs: varName is copied
\* and EvaluateExpression called; variables[varName] is written only once it returned
StoreAtCall(store, varName) == store

\* one turn of InfixToPostfix's while (index < expression.size())
ReadToken ==
    /\ pc = "running"
    /\ Top(calls).phase = "convert"
    /\ Top(calls).index < Len(Top(calls).expression)
    /\ LET f == Top(calls)
           lx == GetNextToken(f.expression, f.index)
           token == lx.token
           s == Shunt(f, token)
       IN  IF lx.err # "" THEN Throw(lx.err) /\ UNCHANGED ub
           ELSE IF token.type = "ASSIGNMENT"
           THEN /\ calls' = Append(ReplaceTop(calls, [f EXCEPT !.index = lx.index,
                                                               !.phase = "call",
                                                               !.varName = token.func]),
                                   Frame(Substr(f.expression, lx.index)))
                /\ variables' = StoreAtCall(variables, token.func)
                /\ UNCHANGED <<outcome, pc, ub>>
           ELSE \E survives \in (IF s.popsEmpty THEN BOOLEAN ELSE {TRUE}) :
                  IF ~survives THEN Die /\ ub' = ub \cup {"operators"}
                  ELSE /\ calls' = ReplaceTop(calls, [f EXCEPT !.index = lx.index,
                                                              !.stack = s.stack,
                                                              !.result = s.result])
                       /\ ub' = (IF s.popsEmpty THEN ub \cup {"operators"} ELSE ub)
                       /\ UNCHANGED <<variables, outcome, pc>>
    /\ UNCHANGED <<input, entry, budget, mode>>

\* the end of InfixToPostfix: drain the operator stack, return result; EvaluateExpression
\* hands it to EvaluatePostfix
Drain ==
    /\ pc = "running"
    /\ Top(calls).phase = "convert"
    /\ Top(calls).index >= Len(Top(calls).expression)
    /\ LET f == Top(calls)
       IN  calls' = ReplaceTop(calls, [f EXCEPT !.result = DrainStack(f.stack, f.result),
                                                !.stack = <<>>,
                                                !.phase = "evaluate",
                                                !.pos = 0,
                                                !.operands = <<>>])
    /\ UNCHANGED <<variables, input, pc, outcome, entry, ub, budget, mode>>

\* ---------------------------------------------------------------- EvaluatePostfix
\* variables[token.func] without the find: an absent name reads as 0
LookupOrZero(store, name) ==
    IF name \in DOMAIN store THEN Computed(store[name]) ELSE Computed(Num(0))

\* variables.find(token.func) != variables.end() ? variables[token.func] : throw
Lookup(store, name) ==
    IF name \in DOMAIN store THEN Computed(store[name]) ELSE Thrown("Undefined variable")

\* one token of the postfix sequence against the operand stack; g1 and g2 are what
\* stack.top() reads when the stack is empty; empty when that happened
ApplyToken(operands, token, store, g1, g2) ==
    LET n == Len(operands)
        top == IF n >= 1 THEN operands[n] ELSE g1
        rest == IF n >= 1 THEN Pop(operands) ELSE <<>>
        bottom == IF n >= 2 THEN operands[n - 1] ELSE g2
        rest2 == IF n >= 2 THEN Pop(rest) ELSE <<>>
    IN  CASE token.type = "NUMBER" ->
                [operands |-> Append(operands, token.value), err |-> "", empty |-> FALSE]
          [] token.type = "VARIABLE" ->
                LET r == Lookup(store, token.func)
                IN  [operands |-> IF r.err = "" THEN Append(operands, r.value) ELSE operands,
                     err |-> r.err, empty |-> FALSE]
          [] token.type = "OPERATOR" ->
                LET r == GetOperatorResult(token.op, bottom, top)
                IN  [operands |-> Append(rest2, r.value), err |-> r.err, empty |-> n < 2]
          [] token.type = "FUNCTION" ->
                LET r == GetFunctionResult(token.func, top)
                IN  [operands |-> Append(rest, r.value), err |-> r.err, empty |-> n < 1]
          [] OTHER -> [operands |-> operands, err |-> "", empty |-> FALSE]

\* how many operands the token takes off the stack
Arity(token) ==
    CASE token.type = "OPERATOR" -> 2 [] token.type = "FUNCTION" -> 1 [] OTHER -> 0

\* one turn of EvaluatePostfix's for (Token& token : postfix)
EvaluateToken ==
    /\ pc = "running"
    /\ Top(calls).phase = "evaluate"
    /\ Top(calls).pos < Len(Top(calls).result)
    /\ LET f == Top(calls)
           token == f.result[f.pos + 1]
           short == Len(f.operands) < Arity(token)
       IN  \E survives \in (IF short THEN BOOLEAN ELSE {TRUE}),
              g1 \in (IF Len(f.operands) < 1 /\ short THEN GarbageValues ELSE {Num(0)}),
              g2 \in (IF Arity(token) = 2 /\ short THEN GarbageValues ELSE {Num(0)}) :
             LET r == ApplyToken(f.operands, token, variables, g1, g2)
             IN  /\ ub' = (IF r.empty THEN ub \cup {"operands"} ELSE ub)
                 /\ IF ~survives THEN Die
                    ELSE IF r.err # "" THEN Throw(r.err)
                    ELSE /\ calls' = ReplaceTop(calls, [f EXCEPT !.pos = f.pos + 1,
                                                                !.operands = r.operands])
                         /\ UNCHANGED <<variables, outcome, pc>>
    /\ UNCHANGED <<input, entry, budget, mode>>

\* return stack.top(): the value goes to main, or to the InfixToPostfix that made the
\* call for an assignment, which stores it and returns it as its whole postfix
Return ==
    /\ pc = "running"
    /\ Top(calls).phase = "evaluate"
    /\ Top(calls).pos >= Len(Top(calls).result)
    /\ LET f == Top(calls)
           empty == f.operands = <<>>
       IN  \E survives \in (IF empty THEN BOOLEAN ELSE {TRUE}),
              g \in (IF empty THEN GarbageValues ELSE {Num(0)}) :
             LET value == IF empty THEN g ELSE Top(f.operands)
             IN  /\ ub' = (IF empty THEN ub \cup {"operands"} ELSE ub)
                 /\ IF ~survives THEN Die
                    ELSE IF Len(calls) = 1
                    THEN /\ calls' = <<>>
                         /\ outcome' = Result(value)
                         /\ pc' = "prompt"
                         /\ UNCHANGED variables
                    ELSE LET caller == calls[Len(calls) - 1]
                         IN  /\ variables' = Assign(variables, caller.varName, value)
                             /\ calls' = ReplaceTop(Pop(calls),
                                           [caller EXCEPT
                                              !.result = <<Token("NUMBER", value, "", <<>>)>>,
                                              !.stack = <<>>,
                                              !.phase = "evaluate",
                                              !.pos = 0,
                                              !.operands = <<>>])
                             /\ UNCHANGED <<outcome, pc>>
    /\ UNCHANGED <<input, entry, budget, mode>>

\* ---------------------------------------------------------------- the lines main reads
RECURSIVE Flatten(_)
Flatten(pieces) == IF pieces = <<>> THEN <<>> ELSE Head(pieces) \o Flatten(Tail(pieces))

\* every text made of at most n pieces
Texts(pieces, n) == {Flatten(ps) : ps \in UNION {[1..k -> pieces] : k \in 0..n}}

x == <<"x">>
y == <<"y">>
exit == <<"e", "x", "i", "t">>

Pieces == {<<"2">>, <<"0">>, <<".">>, x, y, <<"=">>, <<"+">>, <<"*">>, <<"/">>, <<"(">>,
           <<")">>, <<" ">>, <<"#">>, sin}

Examples ==
    {<<"2", "+", "3", "*", "4">>,
     <<"(", "2", "+", "3", ")", "*", "4">>,
     <<"2", "^", "3", "^", "2">>,
     <<"5", "/", "0">>,
     <<"x", " ", "=", " ", "5">>,
     <<"x", " ", "+", " ", "1">>,
     <<"y", " ", "+", " ", "1">>,
     <<"s", "q", "r", "t", "(", "1", "6", ")">>,
     <<"s", "i", "n", "(", "0", ")">>,
     <<"2", " ", "#", " ", "3">>,
     <<"3", ".", "1", "4">>,
     <<"0", ".", "5">>,
     <<"4", "2">>,
     <<"x", " ", "=", " ", "y", " ", "=", " ", "1", "/", "0">>,
     <<"x", " ", "=", " ", "5", " ", "#">>,
     <<"2", "+", "3", ")">>,
     <<"2", " ", "=", " ", "3">>,
     <<"=", " ", "5">>,
     <<"e", "x", "i", "t">>,
     <<"y", " ", "x", " ", "=", " ", "5">>,
     <<"1", "6", " ", "s", "q", "r", "t">>,
     <<"x", " ", "=", " ", "y", " ", "=", " ", "2">>,
     <<"2", "-", "3", "-", "4">>,
     <<"8", "/", "4", "/", "2">>,
     <<"x", " ", "=", " ", "x", " ", "+", " ", "1">>}

\* f(a) for each function name and a few arguments
Arguments == {<<"1", "6">>, <<"0">>, <<"1">>, x, <<"2", "+", "2">>}
Applications == {f \o <<"(">> \o a \o <<")">> : f \in functions, a \in Arguments}

LineInputs == Texts(Pieces, MaxPieces) \cup Examples \cup Applications

\* numeric literals d1, d1.d2 and .d2 of at most MaxDigits digits on each side
LiteralDigits == {"0", "1", "4", "5"}
DigitStrings(lo) == UNION {[1..k -> LiteralDigits] : k \in lo..MaxDigits}
Literals == DigitStrings(1) \cup {a \o <<".">> \o b : a \in DigitStrings(0), b \in DigitStrings(1)}

\* well-formed arithmetic: chains of at most MaxOperators binary operators over the
\* numerals and over parenthesised shorter chains
Numerals == {<<"2">>, <<"3">>}
BinaryOperators == {<<"+">>, <<"-">>, <<"*">>, <<"/">>, <<"^">>}

RECURSIVE Chains(_)
Operands(n) == IF n = 0 THEN Numerals ELSE {<<"(">> \o e \o <<")">> : e \in Chains(n)}
Chains(n) ==
    IF n = 0 THEN Numerals
    ELSE UNION {{e \o o \o a : e \in (IF k = 0 THEN Numerals ELSE Chains(k) \cup Operands(k)),
                               o \in BinaryOperators, a \in Operands(n - 1 - k)}
                : k \in 0..(n - 1)}

ArithmeticInputs == UNION {Chains(n) : n \in 0..MaxOperators}

\* a session of assignments and recalls
Targets == {x, y, <<"a", "b">>}
Bodies == {<<"5">>, <<"2", "+", "3">>, x, <<"x", "*", "2">>, <<"1", "/", "0">>,
           <<"y", "-", "1">>, <<"2", "0">>, <<"1", "/", "4">>}
SessionInputs ==
    {n \o <<" ", "=", " ">> \o e : n \in Targets, e \in Bodies}
      \cup {n \o <<" ", "+", " ", "1">> : n \in Targets}
      \cup {<<"x", "=", "y", "=", "2">>, <<"y", " ", "x", " ", "=", " ", "5">>}

Inputs(m) ==
    CASE m = "line" -> LineInputs
      [] m = "lex" -> Literals
      [] m = "arith" -> ArithmeticInputs
      [] m = "session" -> SessionInputs

\* stores earlier assignments of a session leave
EmptyStore == [n \in {} |-> Num(0)]
Stores == {EmptyStore, Assign(EmptyStore, x, Num(2)),
           Assign(Assign(EmptyStore, x, Num(2)), y, Num(0))}

\* ---------------------------------------------------------------- main
\* std::getline, the exit test, and the call of EvaluateExpression
Main ==
    /\ pc = "prompt"
    /\ budget > 0
    /\ \E text \in Inputs(mode) :
         /\ input' = text
         /\ IF text = exit
            THEN /\ pc' = "exited"
                 /\ calls' = <<>>
            ELSE /\ pc' = "running"
                 /\ calls' = <<Frame(text)>>
    /\ budget' = budget - 1
    /\ entry' = variables
    /\ outcome' = NoOutcome
    /\ ub' = {}
    /\ UNCHANGED <<variables, mode>>

Start(m, stores, lines) ==
    /\ mode = m
    /\ variables \in stores
    /\ budget = lines
    /\ input = <<>>
    /\ pc = "prompt"
    /\ calls = <<>>
    /\ outcome = NoOutcome
    /\ entry = variables
    /\ ub = {}

\* one line against a store of an earlier session
Init == Start("line", Stores, 1)
InitLex == Start("lex", {EmptyStore}, 1)
InitArith == Start("arith", {EmptyStore}, 1)
\* a session from its start
InitSession == Start("session", {EmptyStore}, MaxEvals)

Next == Main \/ ReadToken \/ Drain \/ EvaluateToken \/ Return

Spec == Init /\ [][Next]_vars
SpecLex == InitLex /\ [][Next]_vars
SpecArith == InitArith /\ [][Next]_vars
SpecSession == InitSession /\ [][Next]_vars

\* ---------------------------------------------------------------- what a text denotes
\* the tokens of a text from left to right, as the nested calls of InfixToPostfix
\* read them one after the other, and the throw that ended the reading
RECURSIVE LexFrom(_, _, _)
LexFrom(text, index, read) ==
    IF index >= Len(text) THEN [tokens |-> read, err |-> ""]
    ELSE LET lx == GetNextToken(text, index)
         IN  IF lx.err # "" THEN [tokens |-> read, err |-> lx.err]
             ELSE LexFrom(text, lx.index,
                          IF lx.token.type = "END" THEN read ELSE Append(read, lx.token))
Tokens(text) == LexFrom(text, 0, <<>>)

Failed == [ok |-> FALSE, value |-> Num(0)]

\* InfixToPostfix on a text without assignment, when nothing throws and no empty
\* stack is popped
RECURSIVE ConvertFrom(_)
ConvertFrom(f) ==
    IF f.index >= Len(f.expression)
    THEN [ok |-> TRUE, postfix |-> DrainStack(f.stack, f.result)]
    ELSE LET lx == GetNextToken(f.expression, f.index)
             s == Shunt(f, lx.token)
         IN  IF lx.err # "" \/ lx.token.type = "ASSIGNMENT" \/ s.popsEmpty
             THEN [ok |-> FALSE, postfix |-> <<>>]
             ELSE ConvertFrom([f EXCEPT !.index = lx.index, !.stack = s.stack,
                                        !.result = s.result])

\* EvaluatePostfix, when nothing throws and no empty stack is read
RECURSIVE EvaluateFrom(_, _, _, _)
EvaluateFrom(postfix, pos, operands, store) ==
    IF pos >= Len(postfix)
    THEN (IF operands = <<>> THEN Failed ELSE [ok |-> TRUE, value |-> Top(operands)])
    ELSE LET r == ApplyToken(operands, postfix[pos + 1], store, Num(0), Num(0))
         IN  IF r.err # "" \/ r.empty THEN Failed
             ELSE EvaluateFrom(postfix, pos + 1, r.operands, store)

\* the value an assignment-free text evaluates to against a store, when it does so
\* without error and without undefined behaviour
Value(text, store) ==
    LET c == ConvertFrom(Frame(text))
    IN  IF c.ok THEN EvaluateFrom(c.postfix, 0, <<>>, store) ELSE Failed

\* the last EvaluateExpression call of main is over
Finished == outcome.kind # "none"

\* ---------------------------------------------------------------- C1
\* C1: for each function name f and each parenthesised argument a that evaluates to v,
\* EvaluateExpression on "f(a)" returns f applied to v ("sqrt(16)" returns 4).
C1_FunctionAppliedToArgument ==
    \A f \in functions, a \in Arguments :
        LET arg == <<"(">> \o a \o <<")">>
            v == Value(arg, entry)
        IN  (Finished /\ pc = "prompt" /\ input = f \o arg /\ v.ok)
                => outcome = Result(GetFunctionResult(f, v.value).value)

\* ---------------------------------------------------------------- C2
RECURSIVE DigitsValue(_)
DigitsValue(ds) ==
    IF ds = <<>> THEN 0
    ELSE 10 * DigitsValue(SubSeq(ds, 1, Len(ds) - 1)) + DigitValue(ds[Len(ds)])

RECURSIVE TenTo(_)
TenTo(k) == IF k = 0 THEN 1 ELSE 10 * TenTo(k - 1)

Points(text) == {i \in 1..Len(text) : text[i] = "."}
IntegerPart(text) ==
    IF Points(text) = {} THEN text
    ELSE SubSeq(text, 1, (CHOOSE i \in Points(text) : TRUE) - 1)
FractionPart(text) ==
    IF Points(text) = {} THEN <<>>
    ELSE SubSeq(text, (CHOOSE i \in Points(text) : TRUE) + 1, Len(text))

\* d1 or d1.d2: digits, at most one point, digits on each side of it
WellFormedLiteral(text) ==
    /\ \A i \in 1..Len(text) : text[i] \in Digits \cup {"."}
    /\ Cardinality(Points(text)) <= 1
    /\ IntegerPart(text) # <<>>
    /\ Points(text) # {} => FractionPart(text) # <<>>

\* d1 + d2 / 10^|d2|: the k-th digit after the point weighs 10^-k
DecimalValue(text) ==
    Q(DigitsValue(IntegerPart(text)) * TenTo(Len(FractionPart(text)))
        + DigitsValue(FractionPart(text)),
      TenTo(Len(FractionPart(text))))

\* C2: GetNextToken on a well-formed literal d1.d2 (or d1) returns a Number token
\* whose value is the decimal value of the literal ("3.14" gives 3.14).
C2_LiteralHasDecimalValue ==
    (/\ WellFormedLiteral(input)
     /\ Len(calls) = 1
     /\ Top(calls).phase = "convert"
     /\ Top(calls).index = Len(input))
        => Top(calls).result = <<Token("NUMBER", DecimalValue(input), "", <<>>)>>

\* ---------------------------------------------------------------- C3
\* C3: for every text and store, EvaluatePostfix never reads the top of, or pops, the
\* operand stack while it is empty.
C3_OperandStackNeverReadEmpty == "operands" \notin ub

\* ---------------------------------------------------------------- C4
NoAssignment(text) == \A i \in 1..Len(text) : text[i] # "="

\* C4: "n = e", n no function name, e assignment-free and evaluating to v against the
\* store S, returns v and leaves S with n mapped to v; "n + 1" on a store that maps n
\* to v returns v + 1.
C4_AssignThenRecall ==
    Finished =>
        /\ LET lx == GetNextToken(input, 0)
               n == lx.token.func
               v == Value(Substr(input, lx.index), entry)
           IN  (/\ lx.err = ""
                /\ lx.token.type = "ASSIGNMENT"
                /\ n \notin functions
                /\ NoAssignment(Substr(input, lx.index))
                /\ v.ok)
                   => /\ outcome = Result(v.value)
                      /\ DOMAIN variables = DOMAIN entry \cup {n}
                      /\ variables[n] = v.value
                      /\ \A m \in DOMAIN entry \ {n} : variables[m] = entry[m]
        /\ \A n \in DOMAIN entry \ functions :
               input = n \o <<" ", "+", " ", "1">>
                   => /\ outcome = Result(Add(entry[n], Num(1)))
                      /\ variables = entry

\* "x = 5" was read, then "x + 1" returned 6
C4_Witness ==
    /\ input = <<"x", " ", "+", " ", "1">>
    /\ x \in DOMAIN entry
    /\ entry[x] = Num(5)
    /\ outcome = Result(Num(6))

\* ---------------------------------------------------------------- C5
UndefinedVariableIn(tokens, store) ==
    \E i \in 1..Len(tokens) :
        tokens[i].type = "VARIABLE" /\ tokens[i].func \notin DOMAIN store

\* the tokens no Assignment token follows: those of the innermost call
AfterAssignments(tokens) ==
    LET a == {i \in 1..Len(tokens) : tokens[i].type = "ASSIGNMENT"}
    IN  IF a = {} THEN tokens
        ELSE SubSeq(tokens, (CHOOSE i \in a : \A j \in a : j <= i) + 1, Len(tokens))

\* C5 as stated: a text that lexes without error and references, anywhere, a Variable
\* absent from the store never yields a numeric result.
C5_UndefinedAnywhereFails ==
    (/\ Finished
     /\ Tokens(input).err = ""
     /\ UndefinedVariableIn(Tokens(input).tokens, entry))
        => outcome.kind # "ok"

\* C5 amended: a text that lexes without error and references a Variable absent from
\* the store after its last Assignment token never yields a numeric result.
C5_UndefinedAfterAssignmentsFails ==
    (/\ Finished
     /\ Tokens(input).err = ""
     /\ UndefinedVariableIn(AfterAssignments(Tokens(input).tokens), entry))
        => outcome.kind # "ok"

\* "y + 1" with y unassigned failed with the undefined-variable error
C5_Witness ==
    /\ input = <<"y", " ", "+", " ", "1">>
    /\ y \notin DOMAIN entry
    /\ outcome = Error("Undefined variable")

\* ---------------------------------------------------------------- C6
\* the grouping C6 states, read off the tokens by precedence climbing:
\* ^ above * / above + -, equal precedence grouped left to right, parentheses first
ReferencePrecedence(op) ==
    CASE op \in {"+", "-"} -> 1 [] op \in {"*", "/"} -> 2 [] op = "^" -> 3

IsBinary(token) == token.type = "OPERATOR" /\ token.op \in {"+", "-", "*", "/", "^"}

Malformed == [ok |-> FALSE, zero |-> FALSE, value |-> Num(0), pos |-> 0]

\* left op right; zero once a division by zero is among the operations
Combine(op, left, right) ==
    [ok |-> TRUE,
     zero |-> left.zero \/ right.zero \/ (op = "/" /\ IsZero(right.value)),
     value |-> CASE op = "+" -> Add(left.value, right.value)
                 [] op = "-" -> Sub(left.value, right.value)
                 [] op = "*" -> Mul(left.value, right.value)
                 [] op = "/" -> Div(left.value, right.value)
                 [] op = "^" -> Pow(left.value, right.value),
     pos |-> right.pos]

RECURSIVE ParseExpression(_, _, _)
RECURSIVE ParseOperand(_, _)
RECURSIVE ParseChain(_, _, _)

\* a number, or a parenthesised expression, at tokens[pos]
ParseOperand(tokens, pos) ==
    IF pos > Len(tokens) THEN Malformed
    ELSE IF tokens[pos].type = "NUMBER"
    THEN [ok |-> TRUE, zero |-> FALSE, value |-> tokens[pos].value, pos |-> pos + 1]
    ELSE IF tokens[pos].type = "PARENTHESIS" /\ tokens[pos].op = "("
    THEN LET e == ParseExpression(tokens, pos + 1, 1)
         IN  IF e.ok /\ e.pos <= Len(tokens) /\ tokens[e.pos].type = "PARENTHESIS"
                /\ tokens[e.pos].op = ")"
             THEN [e EXCEPT !.pos = e.pos + 1]
             ELSE Malformed
    ELSE Malformed

\* left, then every following operator of precedence at least least, each with the
\* operand chain of higher precedence to its right
ParseChain(tokens, left, least) ==
    IF left.pos <= Len(tokens) /\ IsBinary(tokens[left.pos])
       /\ ReferencePrecedence(tokens[left.pos].op) >= least
    THEN LET op == tokens[left.pos].op
             right == ParseExpression(tokens, left.pos + 1, ReferencePrecedence(op) + 1)
         IN  IF right.ok THEN ParseChain(tokens, Combine(op, left, right), least)
             ELSE Malformed
    ELSE left

ParseExpression(tokens, pos, least) ==
    LET first == ParseOperand(tokens, pos)
    IN  IF first.ok THEN ParseChain(tokens, first, least) ELSE Malformed

\* the reference grouping of a text; ok when the text is a well-formed expression of
\* numbers, binary operators and balanced parentheses
Reference(text) ==
    LET t == Tokens(text)
        e == ParseExpression(t.tokens, 1, 1)
    IN  IF t.err = "" /\ e.ok /\ e.pos = Len(t.tokens) + 1 THEN e ELSE Malformed

\* C6: on a well-formed expression of numbers, + - * / ^ and balanced parentheses,
\* EvaluateExpression returns the value of the reference grouping (and the division
\* by zero error where that grouping divides by zero), with no empty stack read.
C6_PrecedenceGrouping ==
    (Finished /\ Reference(input).ok)
        => /\ outcome = IF Reference(input).zero THEN Error("Division by zero")
                        ELSE Result(Reference(input).value)
           /\ ub = {}

\* "2^3^2" returned 64
C6_Witness ==
    /\ input = <<"2", "^", "3", "^", "2">>
    /\ outcome = Result(Num(64))

\* ---------------------------------------------------------------- C7
\* C7: when EvaluateExpression fails, the store is as it was at the call.
C7_FailureLeavesStore ==
    outcome.kind \in {"error", "crash"} => variables = entry

\* "x = y = 1/0" failed inside two nested assignments
C7_Witness ==
    /\ input = <<"x", " ", "=", " ", "y", " ", "=", " ", "1", "/", "0">>
    /\ outcome = Error("Division by zero")
    /\ variables = entry

\* ---------------------------------------------------------------- C8
TokensHeld(f) == {f.stack[i] : i \in 1..Len(f.stack)} \cup {f.result[i] : i \in 1..Len(f.result)}

\* C8: a '=' outside the identifier lookahead never becomes an Operator token.
C8_EqualsNeverAnOperator ==
    \A i \in 1..Len(calls) :
        \A token \in TokensHeld(calls[i]) : ~(token.type = "OPERATOR" /\ token.op = "=")

\* ---------------------------------------------------------------- C9
\* InfixToPostfix is about to read a ')' with no '(' on its operator stack
UnmatchedClosing ==
    /\ pc = "running"
    /\ Top(calls).phase = "convert"
    /\ Top(calls).index < Len(Top(calls).expression)
    /\ LET lx == GetNextToken(Top(calls).expression, Top(calls).index)
       IN  /\ lx.err = ""
           /\ lx.token.type = "PARENTHESIS"
           /\ lx.token.op = ")"
           /\ PopToParenthesis(Top(calls).stack, Top(calls).result).stack = <<>>

\* C9: on an unmatched ')' InfixToPostfix pops every operator to the output, the pop of
\* the empty stack does nothing, no error is raised and conversion goes on.
C9_UnmatchedClosingIsNoOp ==
    [][UnmatchedClosing =>
          /\ pc' = "running"
          /\ Len(calls') = Len(calls)
          /\ Top(calls').phase = "convert"
          /\ Top(calls').stack = <<>>
          /\ Top(calls').result = DrainStack(Top(calls).stack, Top(calls).result)
          /\ Top(calls').index > Top(calls).index]_vars

\* ---------------------------------------------------------------- C10
\* the steps a call can still take are at most its weight
Weight(f) ==
    CASE f.phase = "convert" ->
            2 * (Len(f.expression) - f.index) + Len(f.result) + Len(f.stack) + 2
      [] f.phase = "evaluate" -> Len(f.result) - f.pos + 1
      [] f.phase = "call" -> 3

RECURSIVE TotalWeight(_)
TotalWeight(cs) == IF cs = <<>> THEN 0 ELSE Weight(Head(cs)) + TotalWeight(Tail(cs))

Measure == IF pc = "running" THEN TotalWeight(calls) ELSE 0

AssignmentTokens(text) ==
    Cardinality({i \in 1..Len(Tokens(text).tokens) :
                    Tokens(text).tokens[i].type = "ASSIGNMENT"})

\* C10: EvaluateExpression terminates: every step of a running call lowers a measure
\* that is a natural number and leaves a call that can step again or is over; every
\* token read advances the index; the call made for an assignment gets a strictly
\* shorter text; the nested calls are never more than the Assignment tokens of the line.
C10_Terminates ==
    [][/\ pc = "running" => Measure' < Measure /\ Measure' >= 0
       /\ pc' = "running" => /\ calls' # <<>>
                             /\ Top(calls').phase \in {"convert", "evaluate"}
                             /\ \A i \in 1..(Len(calls') - 1) : calls'[i].phase = "call"
       /\ (pc = "running" /\ pc' = "running" /\ Top(calls).phase = "convert"
             /\ Top(calls).index < Len(Top(calls).expression))
            => /\ calls'[Len(calls)].index > Top(calls).index
               /\ Len(calls') > Len(calls)
                    => Len(Top(calls').expression) < Len(Top(calls).expression)
       /\ pc' = "running" => Len(calls') - 1 <= AssignmentTokens(input')]_vars

\* two nested calls are running for a line with two Assignment tokens
C10_Witness ==
    /\ pc = "running"
    /\ Len(calls) = 3
    /\ AssignmentTokens(input) = 2
    /\ Top(calls).phase = "evaluate"

====
